---- MODULE Spec2Model ----
(***************************************************************************)
(* Model of honey.py: the devnet orchestration script that launches the    *)
(* supersim fork simulator, waits for it to become ready, funds a wallet   *)
(* through a pool of funding tasks and reports balances per chain.         *)
(***************************************************************************)
EXTENDS Integers, Sequences, FiniteSets, TLC

(***************************************************************************)
(* Program constants                                                       *)
(***************************************************************************)
\* default of starting_port (honey.py:42)
DefaultStartingPort == 4444
\* timeout_seconds default of check_supersim_ready (honey.py:85)
timeout_seconds == 60
\* timeout of one readiness probe (honey.py:96)
ProbeTimeout == 10
\* time.sleep(2) between probes (honey.py:100)
PollInterval == 2
\* max_retries (honey.py:182)
max_retries == 3
\* retry_delay = 2.0, in hundredths of a time unit (honey.py:182)
InitialRetryDelay == 200
\* the cap of both worker pools (honey.py:232, honey.py:266)
PoolCap == 4
\* exit status of sys.exit(1) and of an uncaught exception
ExitFailure == 1
\* exit status of an uncaught KeyboardInterrupt
ExitInterrupted == 130

(***************************************************************************)
(* Bounds of the environment                                               *)
(***************************************************************************)
\* longest duration of a readiness probe that does not time out
MaxProbeTime == 4
\* failing external calls the environment injects in the large-pool runs
PoolFaults == 1
\* longest output of the chain client, when a balance function is called on its own
MaxOutLen == 3
\* the other runs: any external call may fail
NoLimit == 0 - 1

None == "None"
\* no exit status yet / no return code (the call timed out)
NoCode == 0 - 1
\* a document without a starting_port entry
NoPort == 0

Min(a, b) == IF a < b THEN a ELSE b

Range(s) == {s[i] : i \in 1..Len(s)}

(***************************************************************************)
(* Python's str ordering: lexicographic on code points.                    *)
(***************************************************************************)
Ord ==
  [c \in {"B","I","L","M","O","P","a","d","e","i","k","n","o","s"} |->
     CASE c = "B" -> 66 [] c = "I" -> 73 [] c = "L" -> 76 [] c = "M" -> 77
       [] c = "O" -> 79 [] c = "P" -> 80 [] c = "a" -> 97 [] c = "d" -> 100
       [] c = "e" -> 101 [] c = "i" -> 105 [] c = "k" -> 107 [] c = "n" -> 110
       [] c = "o" -> 111 [] c = "s" -> 115]

\* the characters of the chain names used in the configurations
Chars ==
  [n \in {"Base","OP","Lisk","Mode","Ink"} |->
     CASE n = "Base" -> <<"B","a","s","e">>
       [] n = "OP"   -> <<"O","P">>
       [] n = "Lisk" -> <<"L","i","s","k">>
       [] n = "Mode" -> <<"M","o","d","e">>
       [] n = "Ink"  -> <<"I","n","k">>]

RECURSIVE SeqLess(_, _)
SeqLess(a, b) ==
  IF b = <<>> THEN FALSE
  ELSE IF a = <<>> THEN TRUE
  ELSE IF Ord[Head(a)] # Ord[Head(b)] THEN Ord[Head(a)] < Ord[Head(b)]
  ELSE SeqLess(Tail(a), Tail(b))

\* a < b for two chain names, as Python compares str
StrLess(a, b) == SeqLess(Chars[a], Chars[b])

(***************************************************************************)
(* Output of the chain client: strings as sequences of characters          *)
(***************************************************************************)
DigitValue ==
  [c \in {"0","1","2","3","4","5","6","7","8","9"} |->
     CASE c = "0" -> 0 [] c = "1" -> 1 [] c = "2" -> 2 [] c = "3" -> 3
       [] c = "4" -> 4 [] c = "5" -> 5 [] c = "6" -> 6 [] c = "7" -> 7
       [] c = "8" -> 8 [] c = "9" -> 9]

IsSpace(c) == c \in {" ", "\n"}

RECURSIVE LStrip(_)
LStrip(str) == IF str # <<>> /\ IsSpace(Head(str)) THEN LStrip(Tail(str)) ELSE str

RECURSIVE RStrip(_)
RStrip(str) ==
  IF str # <<>> /\ IsSpace(str[Len(str)]) THEN RStrip(SubSeq(str, 1, Len(str) - 1))
  ELSE str

\* str.strip()
Strip(str) == RStrip(LStrip(str))

RECURSIVE BeforeBracket(_)
\* str.split('[')[0]
BeforeBracket(str) ==
  IF str = <<>> \/ Head(str) = "[" THEN <<>>
  ELSE <<Head(str)>> \o BeforeBracket(Tail(str))

RECURSIVE DigitsValue(_, _)
DigitsValue(str, acc) ==
  IF str = <<>> THEN acc
  ELSE DigitsValue(Tail(str), 10 * acc + DigitValue[Head(str)])

\* int(str): a ValueError unless str is digits behind an optional sign,
\* surrounding whitespace allowed (the underscores int() accepts between
\* digits are left out: the chain client prints none)
ParseInt(str) ==
  LET body == Strip(str)
      signed == body # <<>> /\ Head(body) \in {"+", "-"}
      digits == IF signed THEN Tail(body) ELSE body
  IN  IF digits # <<>> /\ \A i \in 1..Len(digits) : digits[i] \in DOMAIN DigitValue
      THEN [ok |-> TRUE,
            value |-> IF signed /\ Head(body) = "-" THEN 0 - DigitsValue(digits, 0)
                      ELSE DigitsValue(digits, 0)]
      ELSE [ok |-> FALSE, value |-> 0]

DigitChar == << "0", "1", "2", "3", "4", "5", "6", "7", "8", "9" >>

RECURSIVE Decimal(_)
\* str(n) of a natural number: its decimal numeral
Decimal(n) ==
  IF n < 10 THEN << DigitChar[n + 1] >>
  ELSE Decimal(n \div 10) \o << DigitChar[(n % 10) + 1] >>

(***************************************************************************)
(* Configuration: the honey.yaml documents of the runs, and from_config.   *)
(***************************************************************************)
Holder == "0xholder"

TokenEntry(sym, addr, amt) ==
  [token |-> sym, address |-> addr, amount |-> amt, holder |-> Holder]

ChainData(name, id, bal) == [name |-> name, id |-> id, balance |-> bal]

Yaml(port, pk, chains) == [starting_port |-> port, wallet_pk |-> pk, chains |-> chains]

\* two chains, one funding request per chain for the same holder
yamlTwo ==
  Yaml(NoPort, "0xkey",
       << ChainData("Base", "8453", << TokenEntry("USDC", "0xusdc", 100) >>),
          ChainData("OP", "10", << TokenEntry("VELO", "0xvelo", 10) >>) >>)

\* three chains and an entry without a name, no token entries
yamlThree ==
  Yaml(9545, "0xkey",
       << ChainData("Base", "8453", <<>>), ChainData("", "1", <<>>),
          ChainData("OP", "10", <<>>), ChainData("Lisk", "1135", <<>>) >>)

\* one chain with five token entries: five funding tasks
yamlManyTokens ==
  Yaml(NoPort, "0xkey",
       << ChainData("OP", "10",
            << TokenEntry("VELO", "0xvelo", 10), TokenEntry("USDC", "0xusdc", 100),
               TokenEntry("WETH", "0xweth", 1), TokenEntry("DAI", "0xdai", 5),
               TokenEntry("LSK", "0xlsk", 7) >>) >>)

\* five chains without token entries: five balance checks
yamlManyChains ==
  Yaml(NoPort, "0xkey",
       << ChainData("Base", "8453", <<>>), ChainData("OP", "10", <<>>),
          ChainData("Lisk", "1135", <<>>), ChainData("Mode", "34443", <<>>),
          ChainData("Ink", "57073", <<>>) >>)

\* no chains at all
yamlNoChains == Yaml(NoPort, "0xkey", <<>>)

\* no wallet private key
yamlNoKey == Yaml(NoPort, None, << ChainData("OP", "10", <<>>) >>)

\* a run: the document it loads and the failing calls its environment injects
Runs ==
  { [yaml |-> yamlTwo, faults |-> NoLimit],
    [yaml |-> yamlThree, faults |-> NoLimit],
    [yaml |-> yamlManyTokens, faults |-> PoolFaults],
    [yaml |-> yamlManyChains, faults |-> PoolFaults],
    [yaml |-> yamlNoChains, faults |-> NoLimit],
    [yaml |-> yamlNoKey, faults |-> NoLimit] }

NoConfig == [wallet |-> None, chains |-> <<>>, starting_port |-> 0]

RECURSIVE LoadChainsSamePort(_, _, _)
\* a loop that gives every chain the starting port
LoadChainsSamePort(data, starting_port, chains_list) ==
  IF data = <<>> THEN chains_list
  ELSE LET chain_data == Head(data)
       IN  IF chain_data.name # ""
           THEN LoadChainsSamePort(Tail(data), starting_port,
                  Append(chains_list,
                    [name |-> chain_data.name, id |-> chain_data.id,
                     balance |-> chain_data.balance, port |-> starting_port]))
           ELSE LoadChainsSamePort(Tail(data), starting_port, chains_list)
RECURSIVE LoadChains(_, _, _)
\* the loop over chains_item['chains']: unnamed entries are skipped, the
\* port is starting_port + the number of chains kept so far
LoadChains(data, starting_port, chains_list) ==
  IF data = <<>> THEN chains_list
  ELSE LET chain_data == Head(data)
       IN  IF chain_data.name # ""
           THEN LoadChains(Tail(data), starting_port,
                  Append(chains_list,
                    [name |-> chain_data.name, id |-> chain_data.id,
                     balance |-> chain_data.balance,
                     port |-> starting_port + Len(chains_list)]))
           ELSE LoadChains(Tail(data), starting_port, chains_list)

\* Honey.from_config, for a document that has a wallet private key
from_config(yaml) ==
  LET starting_port == IF yaml.starting_port = NoPort THEN DefaultStartingPort
                       ELSE yaml.starting_port
  IN  [wallet |-> yaml.wallet_pk,
       chains |-> LoadChains(yaml.chains, starting_port, <<>>),
       starting_port |-> starting_port]


RECURSIVE RequestsOfChainSymbol(_, _)
\* requests that name the token by its symbol
RequestsOfChainSymbol(chain_name, balance) ==
  IF balance = <<>> THEN <<>>
  ELSE << [token |-> Head(balance).token, chain |-> chain_name,
           amount |-> Decimal(Head(balance).amount), holder |-> Head(balance).holder] >>
       \o RequestsOfChainSymbol(chain_name, Tail(balance))
\* the request list __main__ builds from the configuration (honey.py:322-330),
\* the amount as str(balance.amount)
RECURSIVE RequestsOfChain(_, _)
RequestsOfChain(chain_name, balance) ==
  IF balance = <<>> THEN <<>>
  ELSE << [token |-> Head(balance).address, chain |-> chain_name,
           amount |-> Decimal(Head(balance).amount), holder |-> Head(balance).holder] >>
       \o RequestsOfChain(chain_name, Tail(balance))

RECURSIVE RequestsOf(_)
RequestsOf(chains) ==
  IF chains = <<>> THEN <<>>
  ELSE RequestsOfChain(Head(chains).name, Head(chains).balance) \o RequestsOf(Tail(chains))

(***************************************************************************)
(* State                                                                   *)
(***************************************************************************)
VARIABLES
  run,            \* the document of this run and its environment's fault budget
  faults,         \* failing external calls the environment may still inject
  honey_config,   \* the module-level honey_config
  mpc,            \* position of the main thread
  exitCode,       \* exit status of the program, NoCode while it runs
  child,          \* the supersim child: "none", "running", "exited"
  termSent,       \* process.terminate() has been called
  interrupted,    \* a KeyboardInterrupt has been delivered to the main thread
  elapsed,        \* time.time() - start_time while check_supersim_ready runs
  ready,          \* result of check_supersim_ready: "unknown", "ready", "failed"
  probed,         \* the last readiness probe: the port it went to and its result
  walletCalls,    \* number of address derivation calls made
  wallet_address, \* the address create_wallet returned
  token_requests, \* the argument of add_tokens_by_address
  ftask,          \* the funding tasks of the running add_tokens_by_address
  poolLog,        \* tasks whose exception the funding pool has logged
  fres,           \* results of the funding tasks, once add_tokens_by_address returned
  btask,          \* the per-chain balance checks
  results,        \* the results buffer of check_token_balances_all_chains
  report,         \* the report lines logged, in order
  call            \* a balance function called on its own: its argument and result

vars == << run, call, faults, honey_config, mpc, exitCode, child, termSent, interrupted,
           elapsed, ready, probed, walletCalls, wallet_address, token_requests, ftask,
           poolLog, fres, btask, results, report >>

procVars == << child, termSent >>
pollVars == << elapsed, ready, probed >>
fundVars == << token_requests, ftask, poolLog, fres >>
balVars  == << btask, results, report >>

(***************************************************************************)
(* The main thread up to the funding phase                                 *)
(***************************************************************************)
Exit(code) == mpc' = "exited" /\ exitCode' = code

\* a loader that does not look at the wallet private key
LoadConfigLate ==
  /\ mpc = "load"
  /\ honey_config' = from_config(run.yaml)
  /\ mpc' = "launch"
  /\ UNCHANGED << run, call, faults, exitCode, procVars, interrupted, pollVars,
                  walletCalls, wallet_address, fundVars, balVars >>
\* honey_config = Honey.from_config() at module level: a ValueError when the
\* wallet private key is missing ends the script before anything else runs
LoadConfig ==
  /\ mpc = "load"
  /\ IF run.yaml.wallet_pk = None
     THEN /\ Exit(ExitFailure)
          /\ UNCHANGED honey_config
     ELSE /\ honey_config' = from_config(run.yaml)
          /\ mpc' = "launch"
          /\ UNCHANGED exitCode
  /\ UNCHANGED << run, call, faults, procVars, interrupted, pollVars, walletCalls,
                  wallet_address, fundVars, balVars >>

\* run_supersim: subprocess.Popen, then check_supersim_ready starts its clock
Launch ==
  /\ mpc = "launch"
  /\ child' = "running"
  /\ elapsed' = 0
  /\ mpc' = "poll"
  /\ UNCHANGED << run, call, faults, honey_config, exitCode, termSent, interrupted, ready, probed,
                  walletCalls, wallet_address, fundVars, balVars >>

\* the results a readiness probe can have
ProbeAnswer == [returncode |-> 0, stdout |-> <<"1", "0", "0", "0", "\n">>, timedout |-> FALSE]

\* the results a readiness probe can have: an answer, exit 0 with no output
\* or a blank line, a non-zero exit, or subprocess.TimeoutExpired
ProbeResults ==
  { ProbeAnswer,
    [returncode |-> 0, stdout |-> <<>>, timedout |-> FALSE],
    [returncode |-> 0, stdout |-> <<"\n">>, timedout |-> FALSE],
    [returncode |-> 1, stdout |-> <<>>, timedout |-> FALSE],
    [returncode |-> NoCode, stdout |-> <<>>, timedout |-> TRUE] }

\* no probe has been made
NoProbe == [port |-> NoPort, result |-> [returncode |-> NoCode, stdout |-> <<>>,
                                         timedout |-> FALSE]]

\* a readiness check that is content with exit status 0
ProbeReadyAnyOutput(result) ==
  /\ ~result.timedout
  /\ result.returncode = 0
\* result.returncode == 0 and result.stdout.strip()
ProbeReady(result) ==
  /\ ~result.timedout
  /\ result.returncode = 0
  /\ Strip(result.stdout) # <<>>

\* one iteration of the loop of check_supersim_ready
Probe(result, d) ==
  /\ mpc = "poll"
  /\ elapsed < timeout_seconds
  /\ result.timedout => d = ProbeTimeout
  /\ ~result.timedout => d \in {0, MaxProbeTime}
  /\ ProbeReady(result) => child = "running"
  /\ probed' = [port |-> honey_config.starting_port, result |-> result]
  /\ IF ProbeReady(result)
     THEN /\ ready' = "ready"
          /\ elapsed' = 0
          /\ mpc' = "wallet"
     ELSE /\ elapsed' = elapsed + d + PollInterval
          /\ UNCHANGED << ready, mpc >>
  /\ UNCHANGED << run, call, faults, honey_config, exitCode, procVars, interrupted,
                  walletCalls, wallet_address, fundVars, balVars >>

\* what run_supersim does when check_supersim_ready returned False:
\* process.terminate() and sys.exit(1)
ReadyFailedLax == [terminate |-> FALSE, pc |-> "wallet", code |-> NoCode]
\* process.terminate() and sys.exit(0)
ReadyFailedZero == [terminate |-> TRUE, pc |-> "exited", code |-> 0]
\* the simulator is started once more
ReadyFailedRelaunch == [terminate |-> FALSE, pc |-> "launch", code |-> NoCode]
ReadyFailed == [terminate |-> TRUE, pc |-> "exited", code |-> ExitFailure]

\* the deadline has passed: check_supersim_ready returns False
ReadyTimeout ==
  /\ mpc = "poll"
  /\ elapsed >= timeout_seconds
  /\ ready' = "failed"
  /\ termSent' = (termSent \/ ReadyFailed.terminate)
  /\ mpc' = ReadyFailed.pc
  /\ exitCode' = ReadyFailed.code
  /\ UNCHANGED << run, call, faults, honey_config, child, interrupted, elapsed, probed,
                  walletCalls, wallet_address, fundVars, balVars >>

\* a wallet resolver that calls the derivation again when it failed
CreateWalletRetry(ok) ==
  /\ mpc = "wallet"
  /\ walletCalls' = walletCalls + 1
  /\ IF ok
     THEN /\ wallet_address' = "0xwallet"
          /\ mpc' = "build"
     ELSE UNCHANGED << wallet_address, mpc >>
  /\ UNCHANGED << run, call, faults, honey_config, exitCode, procVars, interrupted,
                  pollVars, fundVars, balVars >>
\* create_wallet: one cast wallet address call; a failure is raised and ends
\* the script
CreateWallet(ok) ==
  /\ mpc = "wallet"
  /\ walletCalls' = walletCalls + 1
  /\ IF ok
     THEN /\ wallet_address' = "0xwallet"
          /\ mpc' = "build"
          /\ UNCHANGED exitCode
     ELSE /\ Exit(ExitFailure)
          /\ UNCHANGED wallet_address
  /\ UNCHANGED << run, call, faults, honey_config, procVars, interrupted, pollVars,
                  fundVars, balVars >>

\* a script that goes to the balance check without funding
PhaseAfterBuildSkip(requests) == "balance"
\* if token_requests: add_tokens_by_address(...), then the balance check
PhaseAfterBuild(requests) == IF requests # <<>> THEN "fund" ELSE "balance"

\* __main__ builds token_requests and calls add_tokens_by_address if any
BuildRequests ==
  /\ mpc = "build"
  /\ token_requests' = RequestsOf(honey_config.chains)
  /\ mpc' = PhaseAfterBuild(RequestsOf(honey_config.chains))
  /\ UNCHANGED << run, call, faults, honey_config, exitCode, procVars, interrupted,
                  pollVars, walletCalls, wallet_address, ftask, poolLog, fres,
                  balVars >>


(***************************************************************************)
(* add_tokens_by_address: the funding pool and process_token_request       *)
(***************************************************************************)
NoChain == [name |-> "", id |-> "", balance |-> <<>>, port |-> 0]

\* a lookup that falls back to the first configured chain
ChainLookupFirst(chains, chain_name) ==
  IF chains = <<>> THEN NoChain ELSE Head(chains)
RECURSIVE ChainLookup(_, _)
\* next((c for c in honey_config.chains if c.name == chain_name), None)
ChainLookup(chains, chain_name) ==
  IF chains = <<>> THEN NoChain
  ELSE IF Head(chains).name = chain_name THEN Head(chains)
  ELSE ChainLookup(Tail(chains), chain_name)

\* no impersonation call and no transfer call has been made
NoImpArgs == [holder |-> "", port |-> NoPort]
NoXferArgs == [token |-> "", to |-> "", amount |-> <<>>, from |-> "", port |-> NoPort]

\* a submitted task that no worker has picked up yet; impersonated tells that
\* the impersonation call of the current attempt succeeded, imp_args and
\* xfer_args are the arguments of the last impersonation and transfer call
NewTask ==
  [pc |-> "queued", port |-> 0, attempt |-> 0, retry_delay |-> InitialRetryDelay,
   imp |-> 0, xfer |-> 0, under |-> 0, sleeps |-> <<>>, err |-> "none",
   result |-> "none", impersonated |-> FALSE, imp_args |-> NoImpArgs,
   xfer_args |-> NoXferArgs]

TaskIds == DOMAIN ftask

\* a worker that is not handed back when its task has ended
RunningNotReleased(task) == task.pc \in {"imp", "xfer", "sleep", "hung", "done"}
\* the task occupies a worker thread, from its start to its end
Running(task) == task.pc \in {"imp", "xfer", "sleep", "hung"}

RunningTasks == {t \in TaskIds : Running(ftask[t])}

\* max_workers of the pools, without the cap
max_workers_uncapped(n) == n
\* max_workers = min(len(...), 4)
max_workers(n) == Min(n, PoolCap)

\* a worker of the pool takes a queued task only while a sibling has not failed
CanStartFailFast(t) ==
  /\ ftask[t].pc = "queued"
  /\ Cardinality(RunningTasks) < max_workers(Len(token_requests))
  /\ \A u \in TaskIds : ftask[u].result \in {"none", "success"}
\* a worker of the pool takes a queued task when fewer than max_workers run
CanStart(t) ==
  /\ ftask[t].pc = "queued"
  /\ Cardinality(RunningTasks) < max_workers(Len(token_requests))

HasSub(msg, pat) ==
  \E i \in 0..(Len(msg) - Len(pat)) : SubSeq(msg, i + 1, i + Len(pat)) = pat

\* "replacement transaction underpriced" in error_msg or "underpriced" in error_msg
IsUnderpriced(error_msg) ==
  \/ HasSub(error_msg, <<"replacement", "transaction", "underpriced">>)
  \/ HasSub(error_msg, <<"underpriced">>)

\* a handler that backs off after the last attempt as well
OnExceptionSleepLast(task, kind) ==
  IF task.attempt <= max_retries
  THEN [task EXCEPT !.pc = "sleep", !.err = kind]
  ELSE [task EXCEPT !.pc = "done", !.err = kind, !.result = "error"]
\* an except handler that gives up at once
OnExceptionAbort(task, kind) == [task EXCEPT !.pc = "done", !.err = kind, !.result = "error"]
\* an except handler that raises again when the retries are used up
OnExceptionReraise(task, kind) ==
  IF task.attempt < max_retries
  THEN [task EXCEPT !.pc = "sleep", !.err = kind]
  ELSE [task EXCEPT !.pc = "done", !.err = kind, !.result = "raised"]
\* the except handler of the retry loop: retry while attempt < max_retries
OnException(task, kind) ==
  IF task.attempt < max_retries
  THEN [task EXCEPT !.pc = "sleep", !.err = kind]
  ELSE [task EXCEPT !.pc = "done", !.err = kind, !.result = "error"]

\* a retry loop that also retries a transfer rejected for another reason
OnTransferFailedRetryAll(task, error_msg) ==
  LET kind == IF IsUnderpriced(error_msg) THEN "underpriced" ELSE "rejected"
  IN  IF task.attempt < max_retries
      THEN [task EXCEPT !.pc = "sleep", !.err = kind]
      ELSE [task EXCEPT !.pc = "done", !.err = kind, !.result = "exhausted"]
\* the branch for transfer_result.returncode != 0
OnTransferFailed(task, error_msg) ==
  IF IsUnderpriced(error_msg)
  THEN IF task.attempt < max_retries
       THEN [task EXCEPT !.pc = "sleep", !.err = "underpriced", !.under = @ + 1]
       ELSE [task EXCEPT !.pc = "done", !.err = "underpriced", !.under = @ + 1,
                         !.result = "exhausted"]
  ELSE [task EXCEPT !.pc = "done", !.err = "rejected", !.result = "rejected"]

\* a loop that goes through a backoff after a successful transfer
OnTransferOkRetry(task) ==
  [task EXCEPT !.pc = IF task.attempt < max_retries THEN "sleep" ELSE "done",
               !.result = "success"]
\* the branch for transfer_result.returncode == 0: return
OnTransferOk(task) == [task EXCEPT !.pc = "done", !.result = "success"]

\* a backoff that doubles the delay
BackoffDouble(task) ==
  [task EXCEPT !.pc = IF task.attempt + 1 <= max_retries THEN "imp" ELSE "done",
               !.err = "none",
               !.sleeps = Append(@, task.retry_delay),
               !.retry_delay = @ * 2,
               !.attempt = @ + 1,
               !.impersonated = FALSE]
\* a retry that goes straight to the transfer
BackoffToTransfer(task) ==
  [task EXCEPT !.pc = IF task.attempt + 1 <= max_retries THEN "xfer" ELSE "done",
               !.err = "none",
               !.sleeps = Append(@, task.retry_delay),
               !.retry_delay = (@ * 3) \div 2,
               !.attempt = @ + 1,
               !.impersonated = FALSE]
\* time.sleep(retry_delay); retry_delay *= 1.5; continue: the next iteration
\* of for attempt in range(max_retries + 1), if there is one
Backoff(task) ==
  [task EXCEPT !.pc = IF task.attempt + 1 <= max_retries THEN "imp" ELSE "done",
               !.err = "none",
               !.sleeps = Append(@, task.retry_delay),
               !.retry_delay = (@ * 3) \div 2,
               !.attempt = @ + 1,
               !.impersonated = FALSE]

\* a backoff delay that all tasks share
ApplyBackoffShared(tasks, t) ==
  [u \in DOMAIN tasks |->
     IF u = t THEN Backoff(tasks[u])
     ELSE [tasks[u] EXCEPT !.retry_delay = (@ * 3) \div 2]]
\* attempt and retry_delay are locals of process_token_request: the backoff
\* of a task changes that task only
ApplyBackoff(tasks, t) == [tasks EXCEPT ![t] = Backoff(@)]

\* the results of the impersonation call: exit 0, non-zero exit, or the call raises
ImpResults == {"ok", "fail", "exc"}

\* the results of the transfer call
XferResults ==
  { [kind |-> "ok", stderr |-> <<>>],
    [kind |-> "exc", stderr |-> <<>>],
    [kind |-> "fail", stderr |-> <<"replacement", "transaction", "underpriced">>],
    [kind |-> "fail", stderr |-> <<"transaction", "underpriced">>],
    [kind |-> "fail", stderr |-> <<"nonce", "too", "low">>],
    [kind |-> "fail", stderr |-> <<>>] }

\* the environment injects a failing call only while its budget lasts
Inject(failing) ==
  IF failing /\ run.faults # NoLimit
  THEN faults > 0 /\ faults' = faults - 1
  ELSE UNCHANGED faults

mainVars == << run, call, honey_config, exitCode, procVars, interrupted, pollVars,
               walletCalls, wallet_address, balVars >>

\* max_workers = min(len(token_requests), 4); ThreadPoolExecutor(max_workers)
\* raises ValueError for 0 workers; every request is submitted
FundSubmit ==
  /\ mpc = "fund"
  /\ IF max_workers(Len(token_requests)) <= 0
     THEN /\ Exit(ExitFailure)
          /\ UNCHANGED ftask
     ELSE /\ ftask' = [t \in 1..Len(token_requests) |-> NewTask]
          /\ mpc' = "fund_wait"
          /\ UNCHANGED exitCode
  /\ UNCHANGED << run, call, faults, honey_config, procVars, interrupted, pollVars,
                  walletCalls, wallet_address, token_requests, poolLog, fres, balVars >>

PoolOpen == mpc \in {"fund_wait", "fund_abort"}

\* a worker starts process_token_request: the chain lookup, ValueError if unknown
StartTask(t) ==
  /\ PoolOpen
  /\ CanStart(t)
  /\ LET chain_config == ChainLookup(honey_config.chains, token_requests[t].chain)
     IN  ftask' = [ftask EXCEPT ![t] =
                     IF chain_config = NoChain
                     THEN [@ EXCEPT !.pc = "done", !.err = "unknown_chain",
                                    !.result = "raised"]
                     ELSE [@ EXCEPT !.pc = "imp", !.port = chain_config.port]]
  /\ UNCHANGED << mpc, faults, mainVars, token_requests, poolLog, fres >>

\* cast rpc anvil_impersonateAccount
ImpCall(t, res) ==
  /\ PoolOpen
  /\ ftask[t].pc = "imp"
  /\ Inject(res # "ok")
  /\ LET called == [ftask[t] EXCEPT !.imp = @ + 1,
                                    !.imp_args = [holder |-> token_requests[t].holder,
                                                  port |-> ftask[t].port]]
     IN  ftask' = [ftask EXCEPT ![t] =
                     IF res = "ok" THEN [called EXCEPT !.pc = "xfer", !.impersonated = TRUE]
                     ELSE OnException(called, "imp_failed")]
  /\ UNCHANGED << mpc, mainVars, token_requests, poolLog, fres >>

\* cast send transfer(address,uint256)
XferCall(t, res) ==
  /\ PoolOpen
  /\ ftask[t].pc = "xfer"
  /\ Inject(res.kind # "ok")
  /\ LET called == [ftask[t] EXCEPT !.xfer = @ + 1,
                                    !.xfer_args = [token |-> token_requests[t].token,
                                                   to |-> wallet_address,
                                                   amount |-> token_requests[t].amount,
                                                   from |-> token_requests[t].holder,
                                                   port |-> ftask[t].port]]
     IN  ftask' = [ftask EXCEPT ![t] =
                     CASE res.kind = "ok" -> OnTransferOk(called)
                       [] res.kind = "exc" -> OnException(called, "xfer_raised")
                       [] OTHER -> OnTransferFailed(called, res.stderr)]
  /\ UNCHANGED << mpc, mainVars, token_requests, poolLog, fres >>

\* subprocess.run is called without a timeout for the impersonation and the
\* transfer: a call that never returns blocks its worker for good
Hang(t) ==
  /\ PoolOpen
  /\ ftask[t].pc \in {"imp", "xfer"}
  /\ ftask' = [ftask EXCEPT ![t].pc = "hung"]
  /\ UNCHANGED << mpc, faults, mainVars, token_requests, poolLog, fres >>

\* the backoff sleep of a retry ends
Sleep(t) ==
  /\ PoolOpen
  /\ ftask[t].pc = "sleep"
  /\ ftask' = ApplyBackoff(ftask, t)
  /\ UNCHANGED << mpc, faults, mainVars, token_requests, poolLog, fres >>

\* the as_completed loop reaches a future whose task raised: future.result()
\* raises, the exception is caught and logged (for any other finished future
\* the loop body changes nothing)
Collect(t) ==
  /\ mpc = "fund_wait"
  /\ ftask[t].pc = "done"
  /\ ftask[t].result = "raised"
  /\ t \notin poolLog
  /\ poolLog' = poolLog \cup {t}
  /\ UNCHANGED << mpc, faults, mainVars, token_requests, ftask, fres >>

\* a pool that is left as soon as one task has ended
FundJoinedAny == \E t \in TaskIds : ftask[t].pc = "done"
\* the as_completed loop has seen every future and the with block has joined
\* the workers: all tasks have ended
FundJoined ==
  \A t \in TaskIds : ftask[t].pc = "done" /\ (ftask[t].result = "raised" => t \in poolLog)

\* a funding phase that ends the script when a task has failed
PhaseAfterFundingStrict(task_results) ==
  IF \E t \in DOMAIN task_results : task_results[t] # "success" THEN "exited"
  ELSE "balance"
\* add_tokens_by_address returns None whatever its tasks did, and __main__
\* goes on to check_token_balances_all_chains
PhaseAfterFunding(task_results) == "balance"

\* add_tokens_by_address returns; the frames of its tasks are gone
FundReturn ==
  /\ mpc = "fund_wait"
  /\ FundJoined
  /\ fres' = [t \in TaskIds |-> ftask[t].result]
  /\ ftask' = <<>>
  /\ mpc' = PhaseAfterFunding([t \in TaskIds |-> ftask[t].result])
  /\ UNCHANGED << faults, mainVars, token_requests, poolLog >>

\* after a KeyboardInterrupt the executor's __exit__ still joins its workers,
\* then the interrupt leaves the program
FundAbort ==
  /\ mpc = "fund_abort"
  /\ \A t \in TaskIds : ftask[t].pc = "done"
  /\ Exit(ExitInterrupted)
  /\ UNCHANGED << run, call, faults, honey_config, procVars, interrupted, pollVars,
                  walletCalls, wallet_address, fundVars, balVars >>


(***************************************************************************)
(* The balance calls and their results                                     *)
(***************************************************************************)
\* the results of a balance call: exit status, stdout, or the call raises
CallResult(rc, out, raised) == [returncode |-> rc, stdout |-> out, raised |-> raised]

\* the native balance of the wallet on a chain, as cast balance prints it
NativeBalance(chain_name) ==
  IF chain_name = "Base" THEN <<"5", "\n">> ELSE <<"0", "\n">>

EthResults(chain_name) ==
  { CallResult(0, NativeBalance(chain_name), FALSE),
    CallResult(1, <<>>, FALSE),
    CallResult(0, <<"a", "b">>, FALSE),
    CallResult(NoCode, <<>>, TRUE) }

\* cast call prints a balance of 10 with its annotation
TokenTen == CallResult(0, <<"1", "0", " ", "[", "1", "e", "1", "]", "\n">>, FALSE)

TokResults ==
  { CallResult(0, <<"0", "\n">>, FALSE),
    TokenTen,
    CallResult(1, <<>>, FALSE),
    CallResult(0, <<"a", "b">>, FALSE),
    CallResult(NoCode, <<>>, TRUE) }

\* None of Python, for an optional integer
NoBalance == [some |-> FALSE, value |-> 0]

\* a native balance check that answers 0 when the call or the parse fails
check_eth_balance_zero(res) ==
  IF ~res.raised /\ res.returncode = 0 /\ ParseInt(Strip(res.stdout)).ok
  THEN [some |-> TRUE, value |-> ParseInt(Strip(res.stdout)).value]
  ELSE [some |-> TRUE, value |-> 0]
\* check_eth_balance: the integer, or None when the call or the parse fails
check_eth_balance(res) ==
  IF ~res.raised /\ res.returncode = 0 /\ ParseInt(Strip(res.stdout)).ok
  THEN [some |-> TRUE, value |-> ParseInt(Strip(res.stdout)).value]
  ELSE NoBalance

\* a token balance check that parses the whole output, annotation included
check_token_balance_whole(res) ==
  IF ~res.raised /\ res.returncode = 0
  THEN IF ParseInt(Strip(res.stdout)).ok THEN ParseInt(Strip(res.stdout)).value ELSE 0
  ELSE 0
\* check_token_balance: the integer before a bracket, 0 on any failure
check_token_balance(res) ==
  IF ~res.raised /\ res.returncode = 0
  THEN LET balance_str == Strip(res.stdout)
           prefix == IF \E i \in 1..Len(balance_str) : balance_str[i] = "["
                     THEN Strip(BeforeBracket(balance_str)) ELSE balance_str
       IN  IF ParseInt(prefix).ok THEN ParseInt(prefix).value ELSE 0
  ELSE 0

\* the call is one the environment counts as failing
FailedCall(res) == res.raised \/ res.returncode # 0 \/ ~ParseInt(
                     IF \E i \in 1..Len(res.stdout) : res.stdout[i] = "["
                     THEN BeforeBracket(res.stdout) ELSE res.stdout).ok

\* the native balance query of the chain was answered: the client exited
\* with 0 and printed the balance
EthAnswered(chain_name, res) == res = CallResult(0, NativeBalance(chain_name), FALSE)

\* the token balance the wallet has when the client answers res: 10 when it
\* printed 10, and 0 when it printed 0 or the query failed
OnChain(res) == IF res = TokenTen THEN 10 ELSE 0

(***************************************************************************)
(* check_token_balances_all_chains                                         *)
(***************************************************************************)
\* a submitted check; answered and queried record what the chain client did:
\* whether the native query was answered, and the balance behind each token
\* query made so far
NewCheck ==
  [pc |-> "queued", idx |-> 1, eth_str |-> [text |-> "", amount |-> 0],
   token_balances |-> <<>>, collected |-> FALSE, answered |-> FALSE,
   queried |-> <<>>]

CheckIds == DOMAIN btask

RunningChecks == {c \in CheckIds : btask[c].pc \in {"eth", "tok"}}

\* eth_str = f"{eth_balance} ETH" if eth_balance is not None else "Failed"
EthStr(eth_balance) ==
  IF eth_balance.some THEN [text |-> "ETH", amount |-> eth_balance.value]
  ELSE [text |-> "Failed", amount |-> 0]

RECURSIVE InsertByName(_, _)
\* x goes behind every element whose name is not greater: a stable sort
InsertByName(x, sorted) ==
  IF sorted = <<>> THEN <<x>>
  ELSE IF StrLess(x.name, Head(sorted).name) THEN <<x>> \o sorted
  ELSE <<Head(sorted)>> \o InsertByName(x, Tail(sorted))

RECURSIVE SortLoop(_, _)
SortLoop(list, sorted) ==
  IF list = <<>> THEN sorted
  ELSE SortLoop(Tail(list), InsertByName(Head(list), sorted))

\* the results are logged in the order of completion
SortByNameNone(list) == list
\* results.sort(key=lambda x: x[0])
SortByName(list) == SortLoop(list, <<>>)

mainVarsB == << run, call, honey_config, exitCode, procVars, interrupted, pollVars,
                walletCalls, wallet_address, fundVars >>

\* max_workers = min(len(honey_config.chains), 4); one check per chain submitted
BalSubmit ==
  /\ mpc = "balance"
  /\ IF max_workers(Len(honey_config.chains)) <= 0
     THEN /\ Exit(ExitFailure)
          /\ UNCHANGED btask
     ELSE /\ btask' = [c \in 1..Len(honey_config.chains) |-> NewCheck]
          /\ mpc' = "bal_wait"
          /\ UNCHANGED exitCode
  /\ UNCHANGED << run, call, faults, honey_config, procVars, interrupted, pollVars,
                  walletCalls, wallet_address, fundVars, results, report >>

BalOpen == mpc \in {"bal_wait", "bal_abort"}

\* a worker starts check_chain_balances for a chain
StartCheck(c) ==
  /\ BalOpen
  /\ btask[c].pc = "queued"
  /\ Cardinality(RunningChecks) < max_workers(Len(honey_config.chains))
  /\ btask' = [btask EXCEPT ![c].pc = "eth"]
  /\ UNCHANGED << mpc, faults, mainVarsB, results, report >>

\* where check_chain_balances goes after the token at position idx - 1
AfterToken(c, idx) ==
  IF idx > Len(honey_config.chains[c].balance) THEN "done" ELSE "tok"

\* check_eth_balance(wallet_address, chain_config.port)
EthCall(c, res) ==
  /\ BalOpen
  /\ btask[c].pc = "eth"
  /\ Inject(FailedCall(res))
  /\ btask' = [btask EXCEPT ![c].eth_str = EthStr(check_eth_balance(res)),
                            ![c].answered = EthAnswered(honey_config.chains[c].name, res),
                            ![c].pc = AfterToken(c, 1)]
  /\ UNCHANGED << mpc, mainVarsB, results, report >>

\* a token list that keeps every balance, zero included
AppendNonNegative(token_balances, token_balance, token_config) ==
  IF token_balance >= 0
  THEN Append(token_balances, [amount |-> token_balance, token |-> token_config.token])
  ELSE token_balances
\* if token_balance > 0: token_balances.append(f"{token_balance} {token_config.token}")
AppendPositive(token_balances, token_balance, token_config) ==
  IF token_balance > 0
  THEN Append(token_balances, [amount |-> token_balance, token |-> token_config.token])
  ELSE token_balances

\* check_token_balance for the next configured token; zero is left out
TokCall(c, res) ==
  /\ BalOpen
  /\ btask[c].pc = "tok"
  /\ Inject(FailedCall(res))
  /\ LET token_config == honey_config.chains[c].balance[btask[c].idx]
         token_balance == check_token_balance(res)
     IN  btask' = [btask EXCEPT
                     ![c].token_balances = AppendPositive(@, token_balance, token_config),
                     ![c].queried = Append(@, OnChain(res)),
                     ![c].idx = @ + 1,
                     ![c].pc = AfterToken(c, btask[c].idx + 1)]
  /\ UNCHANGED << mpc, mainVarsB, results, report >>

\* a results buffer that leaves out a chain whose native query failed
CollectResultSkipFailed(buffer, result) ==
  IF result.eth_str.text = "Failed" THEN buffer ELSE Append(buffer, result)
\* result = future.result(); results.append(result)
CollectResult(buffer, result) == Append(buffer, result)

\* the as_completed loop appends the result of a finished check
BalCollect(c) ==
  /\ mpc = "bal_wait"
  /\ btask[c].pc = "done"
  /\ ~btask[c].collected
  /\ btask' = [btask EXCEPT ![c].collected = TRUE]
  /\ results' = CollectResult(results, [name |-> honey_config.chains[c].name,
                                        eth_str |-> btask[c].eth_str,
                                        token_str |-> btask[c].token_balances])
  /\ UNCHANGED << mpc, faults, mainVarsB, report >>

\* a pool that is left as soon as one result is in
BalJoinedAny == \E c \in CheckIds : btask[c].collected
\* the as_completed loop has delivered every future
BalJoined == \A c \in CheckIds : btask[c].collected

\* all results are in: sort by chain name and log every line
BalReport ==
  /\ mpc = "bal_wait"
  /\ BalJoined
  /\ report' = SortByName(results)
  /\ mpc' = "wait"
  /\ UNCHANGED << faults, mainVarsB, btask, results >>

\* after a KeyboardInterrupt the executor's __exit__ joins its workers
BalAbort ==
  /\ mpc = "bal_abort"
  /\ \A c \in CheckIds : btask[c].pc = "done"
  /\ Exit(ExitInterrupted)
  /\ UNCHANGED << run, call, faults, honey_config, procVars, interrupted, pollVars,
                  walletCalls, wallet_address, fundVars, balVars >>

(***************************************************************************)
(* The end of the run, the child and the interrupt                         *)
(***************************************************************************)
\* process.wait() returns: the child has exited
FinalWait ==
  /\ mpc \in {"wait", "shutdown_wait"}
  /\ child = "exited"
  /\ Exit(0)
  /\ UNCHANGED << run, call, faults, honey_config, procVars, interrupted, pollVars,
                  walletCalls, wallet_address, fundVars, balVars >>

\* the supersim child exits, by itself or after a termination signal
ChildExit ==
  /\ child = "running"
  /\ child' = "exited"
  /\ UNCHANGED << run, call, faults, honey_config, mpc, exitCode, termSent, interrupted,
                  pollVars, walletCalls, wallet_address, fundVars, balVars >>

\* where a KeyboardInterrupt takes the main thread: only the final
\* process.wait() is inside try/except KeyboardInterrupt
InterruptTarget(pc) ==
  CASE pc = "wait" -> [pc |-> "shutdown_wait", terminate |-> TRUE, code |-> NoCode]
    [] pc = "fund_wait" -> [pc |-> "fund_abort", terminate |-> FALSE, code |-> NoCode]
    [] pc = "bal_wait" -> [pc |-> "bal_abort", terminate |-> FALSE, code |-> NoCode]
    [] OTHER -> [pc |-> "exited", terminate |-> FALSE, code |-> ExitInterrupted]

\* a KeyboardInterrupt is delivered to the main thread
Interrupt ==
  /\ ~interrupted
  /\ mpc \notin {"exited", "shutdown_wait", "fund_abort", "bal_abort"}
  /\ interrupted' = TRUE
  /\ mpc' = InterruptTarget(mpc).pc
  /\ termSent' = (termSent \/ InterruptTarget(mpc).terminate)
  /\ exitCode' = InterruptTarget(mpc).code
  /\ UNCHANGED << run, call, faults, honey_config, child, pollVars, walletCalls,
                  wallet_address, fundVars, balVars >>

(***************************************************************************)
(* Specifications                                                          *)
(***************************************************************************)
\* no balance function is called on its own
NoCall == [fn |-> "none", res |-> CallResult(NoCode, <<>>, FALSE), value |-> NoBalance,
           returned |-> FALSE]

InitCommon ==
  /\ call = NoCall
  /\ exitCode = NoCode
  /\ termSent = FALSE
  /\ interrupted = FALSE
  /\ elapsed = 0
  /\ walletCalls = 0
  /\ ftask = <<>>
  /\ poolLog = {}
  /\ fres = <<>>
  /\ btask = <<>>
  /\ results = <<>>
  /\ report = <<>>

\* a run of the script from its start
Init ==
  /\ run \in Runs
  /\ faults = run.faults
  /\ honey_config = NoConfig
  /\ mpc = "load"
  /\ child = "none"
  /\ ready = "unknown"
  /\ probed = NoProbe
  /\ wallet_address = None
  /\ token_requests = <<>>
  /\ InitCommon

FundStep ==
  \/ FundSubmit
  \/ \E t \in TaskIds : StartTask(t)
  \/ \E t \in TaskIds : \E res \in ImpResults : ImpCall(t, res)
  \/ \E t \in TaskIds : \E res \in XferResults : XferCall(t, res)
  \/ \E t \in TaskIds : Sleep(t)
  \/ FundReturn

\* the script once the simulator is ready and the wallet resolved
PhaseStep ==
  \/ BuildRequests
  \/ FundStep
  \/ FundAbort
  \/ BalSubmit
  \/ \E c \in CheckIds : StartCheck(c)
  \/ \E c \in CheckIds : \E res \in EthResults(honey_config.chains[c].name) : EthCall(c, res)
  \/ \E c \in CheckIds : \E res \in TokResults : TokCall(c, res)
  \/ \E c \in CheckIds : BalCollect(c)
  \/ BalReport
  \/ BalAbort
  \/ FinalWait
  \/ ChildExit
  \/ Interrupt

Next ==
  \/ LoadConfig
  \/ Launch
  \/ \E res \in ProbeResults : \E d \in {0, MaxProbeTime, ProbeTimeout} : Probe(res, d)
  \/ ReadyTimeout
  \/ \E ok \in BOOLEAN : CreateWallet(ok)
  \/ PhaseStep

Spec == Init /\ [][Next]_vars

\* the end-to-end scenario: two chains on the ports 4444 and 4445 with one
\* funding request each for the same holder, the simulator ready and the
\* wallet resolved
InitScenario ==
  /\ run = [yaml |-> yamlTwo, faults |-> NoLimit]
  /\ faults = run.faults
  /\ honey_config = from_config(yamlTwo)
  /\ mpc = "build"
  /\ child = "running"
  /\ ready = "ready"
  /\ probed = [port |-> DefaultStartingPort, result |-> ProbeAnswer]
  /\ wallet_address = "0xwallet"
  /\ token_requests = <<>>
  /\ InitCommon

SpecScenario == InitScenario /\ [][PhaseStep]_vars

\* the threads are scheduled, every external call returns and the child
\* exits in the end
FairSpecScenario == SpecScenario /\ WF_vars(PhaseStep)

\* the funding phase with more tasks than workers: one chain with five token
\* entries, the simulator ready and the wallet resolved
InitFunding ==
  /\ run = [yaml |-> yamlManyTokens, faults |-> PoolFaults]
  /\ faults = run.faults
  /\ honey_config = from_config(yamlManyTokens)
  /\ mpc = "build"
  /\ child = "running"
  /\ ready = "ready"
  /\ probed = [port |-> DefaultStartingPort, result |-> ProbeAnswer]
  /\ wallet_address = "0xwallet"
  /\ token_requests = <<>>
  /\ InitCommon

NextFunding ==
  \/ BuildRequests
  \/ FundStep

SpecFunding == InitFunding /\ [][NextFunding]_vars

\* the worker threads are scheduled and every external call returns
FairSpecFunding == SpecFunding /\ WF_vars(NextFunding)


(***************************************************************************)
(* add_tokens_by_address called with a request list of the caller          *)
(***************************************************************************)
Request(token, chain, amount) ==
  [token |-> token, chain |-> chain, amount |-> amount, holder |-> Holder]

reqBase == Request("0xusdc", "Base", Decimal(100))
reqOP == Request("0xvelo", "OP", Decimal(10))
\* a request for a chain that is not configured
reqMode == Request("0xmode", "Mode", Decimal(1))

CallRequests ==
  { <<>>, <<reqBase>>, <<reqBase, reqOP>>, <<reqMode, reqBase>>,
    <<reqBase, reqMode, reqOP>> }

\* the configuration of two chains is loaded, the simulator is ready and the
\* wallet resolved; the caller passes its own request list
InitCall ==
  /\ run = [yaml |-> yamlTwo, faults |-> NoLimit]
  /\ faults = run.faults
  /\ honey_config = from_config(yamlTwo)
  /\ mpc = "fund"
  /\ child = "running"
  /\ ready = "ready"
  /\ probed = [port |-> DefaultStartingPort, result |-> ProbeAnswer]
  /\ wallet_address = "0xwallet"
  /\ token_requests \in CallRequests
  /\ InitCommon

\* in a run of the script every request names a configured chain and no task
\* raises; with the request list of a caller the pool's except branch is reached
NextCall ==
  \/ FundStep
  \/ \E t \in TaskIds : Collect(t)

SpecCall == InitCall /\ [][NextCall]_vars

\* the worker threads are scheduled and every external call returns
FairSpecCall == SpecCall /\ WF_vars(NextCall)

\* the two pool functions called one after the other, as __main__ does but
\* without its guard on an empty list, for a configuration with two chains or
\* with none and for a list of no, one or two requests
UnitRuns ==
  { [yaml |-> yamlTwo, faults |-> PoolFaults],
    [yaml |-> yamlNoChains, faults |-> PoolFaults] }

UnitRequests == { <<>>, <<reqBase>>, <<reqBase, reqOP>> }

InitUnits ==
  /\ run \in UnitRuns
  /\ faults = run.faults
  /\ honey_config = from_config(run.yaml)
  /\ mpc = "fund"
  /\ child = "running"
  /\ ready = "ready"
  /\ probed = [port |-> DefaultStartingPort, result |-> ProbeAnswer]
  /\ wallet_address = "0xwallet"
  /\ token_requests \in UnitRequests
  /\ InitCommon

NextUnits ==
  \/ NextCall
  \/ BalSubmit
  \/ \E c \in CheckIds : StartCheck(c)
  \/ \E c \in CheckIds : \E res \in EthResults(honey_config.chains[c].name) : EthCall(c, res)
  \/ \E c \in CheckIds : \E res \in TokResults : TokCall(c, res)
  \/ \E c \in CheckIds : BalCollect(c)
  \/ BalReport

SpecUnits == InitUnits /\ [][NextUnits]_vars

\* the same call where an external call of a task may never return
NextHang ==
  \/ NextCall
  \/ \E t \in TaskIds : Hang(t)

SpecHang == InitCall /\ [][NextHang]_vars

\* the worker threads are scheduled; a call returns unless it hangs
FairSpecHang == SpecHang /\ WF_vars(NextHang)


(***************************************************************************)
(* check_eth_balance and check_token_balance called on their own           *)
(***************************************************************************)
\* the characters the chain client prints
OutChars == {"0", "1", "7", "-", " ", "[", "]", "e", "\n"}

\* every output of at most MaxOutLen characters
Outputs == UNION {[1..n -> OutChars] : n \in 0..MaxOutLen}

\* what a balance call can come back with: an exit status and an output, or
\* the call raises
ClientResults ==
  {CallResult(rc, out, FALSE) : rc \in {0, 1}, out \in Outputs}
    \cup {CallResult(NoCode, <<>>, TRUE)} \cup TokResults

BalanceFunctions == {"check_eth_balance", "check_token_balance"}

\* the module is imported and one balance function is called
InitBalanceCall ==
  /\ run = [yaml |-> yamlTwo, faults |-> NoLimit]
  /\ faults = run.faults
  /\ honey_config = from_config(yamlTwo)
  /\ mpc = "load"
  /\ child = "none"
  /\ ready = "unknown"
  /\ probed = NoProbe
  /\ wallet_address = None
  /\ token_requests = <<>>
  /\ exitCode = NoCode
  /\ termSent = FALSE
  /\ interrupted = FALSE
  /\ elapsed = 0
  /\ walletCalls = 0
  /\ ftask = <<>>
  /\ poolLog = {}
  /\ fres = <<>>
  /\ btask = <<>>
  /\ results = <<>>
  /\ report = <<>>
  /\ call \in {[fn |-> fn, res |-> res, value |-> NoBalance, returned |-> FALSE] :
                 fn \in BalanceFunctions, res \in ClientResults}

\* check_eth_balance returns
EthReturn ==
  /\ call.fn = "check_eth_balance"
  /\ ~call.returned
  /\ call' = [call EXCEPT !.value = check_eth_balance(call.res), !.returned = TRUE]
  /\ UNCHANGED << run, faults, honey_config, mpc, exitCode, procVars, interrupted,
                  pollVars, walletCalls, wallet_address, fundVars, balVars >>

\* check_token_balance returns
TokReturn ==
  /\ call.fn = "check_token_balance"
  /\ ~call.returned
  /\ call' = [call EXCEPT !.value = [some |-> TRUE, value |-> check_token_balance(call.res)],
                          !.returned = TRUE]
  /\ UNCHANGED << run, faults, honey_config, mpc, exitCode, procVars, interrupted,
                  pollVars, walletCalls, wallet_address, fundVars, balVars >>

NextBalanceCall == EthReturn \/ TokReturn

SpecBalanceCall == InitBalanceCall /\ [][NextBalanceCall]_vars


(***************************************************************************)
(* Properties                                                              *)
(***************************************************************************)
\* every attempt of the task so far reached its transfer and failed underpriced
AllUnderpriced(task) == task.imp > 0 /\ task.xfer = task.imp /\ task.under = task.xfer

\* the backoff delays 2, 3 and 4.5, in hundredths
RetryDelays == << 200, 300, 450 >>

\* C1: a funding task whose transfer fails with the underpriced error on every
\* attempt submits the transfer at most 4 times (1 initial + 3 retries) and
\* then ends with its retries exhausted; the delays it sleeps between the
\* attempts are 2, then 3, then 4.5 time units.
C1_RetryBound ==
  \A t \in TaskIds :
    LET task == ftask[t]
    IN  AllUnderpriced(task) =>
          /\ task.xfer <= 4
          /\ Len(task.sleeps) \in {task.xfer - 1, task.xfer}
          /\ Len(task.sleeps) <= 3
          /\ task.sleeps = SubSeq(RetryDelays, 1, Len(task.sleeps))
          /\ (task.pc = "done") = (task.xfer = 4)
          /\ task.pc = "done" => task.result = "exhausted" /\ task.sleeps = RetryDelays

\* a task hit the underpriced error 4 times, slept 2, 3, 4.5 and has ended
C1_Witness ==
  \E t \in TaskIds :
    /\ AllUnderpriced(ftask[t])
    /\ ftask[t].xfer = 4
    /\ ftask[t].pc = "done"
    /\ ftask[t].sleeps = << 200, 300, 450 >>

\* the requests that name a chain which is not configured
UnknownChain(t) ==
  \A i \in 1..Len(honey_config.chains) :
    honey_config.chains[i].name # token_requests[t].chain

\* C2: partial failure isolation in the funding pool: whatever tasks fail
\* (impersonation fails, transfer rejected, or the task raises), every task
\* submitted is started and runs to its end, so that add_tokens_by_address
\* returns with a result for every task; a task whose calls succeed ends in
\* success, whatever happened to its siblings.
C2_Isolation ==
  /\ [](\A t \in TaskIds :
          ftask[t].pc = "done" /\ ftask[t].imp = 1 /\ ftask[t].err = "none"
            => ftask[t].result = "success")
  /\ [](mpc = "balance" =>
          /\ DOMAIN fres = 1..Len(token_requests)
          /\ \A t \in DOMAIN fres : fres[t] # "none"
          /\ \A t \in DOMAIN fres : fres[t] = "raised" <=> UnknownChain(t))
  /\ (mpc = "fund_wait") ~> (mpc = "balance")

\* the pool has returned: one task raised, one failed for good, one succeeded
C2_Witness ==
  /\ mpc = "balance"
  /\ \E t, u \in DOMAIN fres :
       fres[t] \in {"raised", "error", "rejected", "exhausted"} /\ fres[u] = "success"

\* C3: readiness timeout: when check_supersim_ready returns False, run_supersim
\* sends the termination signal to the child and the run exits with a non-zero
\* code; no wallet derivation, no funding task and no balance check is invoked.
C3_ReadinessTimeout ==
  ready = "failed" =>
    /\ termSent
    /\ mpc = "exited"
    /\ exitCode # NoCode /\ exitCode # 0
    /\ walletCalls = 0
    /\ wallet_address = None
    /\ token_requests = <<>> /\ ftask = <<>> /\ fres = <<>>
    /\ btask = <<>> /\ results = <<>> /\ report = <<>>

\* the deadline passed without a successful probe
C3_Witness == ready = "failed" /\ elapsed >= 60 /\ mpc = "exited"

\* C4: an interrupt that arrives after the child was launched makes the top
\* level send the termination signal to the child and wait for its exit
\* before the program ends.
C4_InterruptTerminates ==
  mpc = "exited" /\ interrupted /\ child # "none" => termSent /\ child = "exited"

\* C5: no orphaned simulator: in every terminal state of a run that launched
\* the child, the child has exited.
C5_NoOrphan == mpc = "exited" /\ child # "none" => child = "exited"

C7_NonRetryable ==
  \A t \in TaskIds :
    ftask[t].err = "rejected" =>
      /\ ftask[t].pc = "done"
      /\ ftask[t].result = "rejected"
      /\ Len(ftask[t].sleeps) = ftask[t].attempt
      /\ ftask[t].imp = ftask[t].attempt + 1
      /\ ftask[t].xfer <= ftask[t].attempt + 1

\* a transfer was rejected in the first attempt, all retries remaining
C7_Witness ==
  \E t \in TaskIds :
    ftask[t].err = "rejected" /\ ftask[t].attempt = 0 /\ ftask[t].pc = "done"

HasUnknownChain == \E t \in 1..Len(token_requests) : UnknownChain(t)

C9_BoundedParallelism ==
  /\ Cardinality(RunningTasks) <= Min(Len(token_requests), 4)
  /\ Cardinality(RunningChecks) <= Min(Len(honey_config.chains), 4)

\* four of five funding tasks run and the fifth waits in the queue
C9_Witness ==
  /\ Len(token_requests) = 5
  /\ Cardinality(RunningTasks) = 4
  /\ \E t \in TaskIds : ftask[t].pc = "queued"

Names(list) == [i \in 1..Len(list) |-> list[i].name]

\* C10: deterministic reporting: whatever the order in which the checks
\* complete, the report has one line per configured chain, in ascending order
\* of chain name; for the chains Base, OP, Lisk it is Base, Lisk, OP.
C10_SortedReport ==
  mpc \in {"wait", "shutdown_wait"} \/ report # <<>> =>
    /\ Len(report) = Len(honey_config.chains)
    /\ Range(Names(report)) = Range(Names(honey_config.chains))
    /\ \A i, j \in 1..Len(report) :
         i < j => SeqLess(Chars[report[i].name], Chars[report[j].name])
    /\ Names(honey_config.chains) = << "Base", "OP", "Lisk" >>
         => Names(report) = << "Base", "Lisk", "OP" >>
    /\ Names(honey_config.chains) = << "Base", "OP", "Lisk", "Mode", "Ink" >>
         => Names(report) = << "Base", "Ink", "Lisk", "Mode", "OP" >>

\* the checks of Base, OP, Lisk completed in the order OP, Lisk, Base
C10_Witness ==
  /\ Names(results) = << "OP", "Lisk", "Base" >>
  /\ Names(report) = << "Base", "Lisk", "OP" >>

\* the main thread is past create_wallet
PastWallet ==
  mpc \in {"build", "fund", "fund_wait", "fund_abort", "balance", "bal_wait",
           "bal_abort", "wait", "shutdown_wait"}

\* C11: the wallet resolver makes the address derivation call exactly once
\* per run: never a second time, and once whenever the run gets past it; when
\* the call fails it is not retried and the run ends with a failure status,
\* with no funding task submitted and no balance check made.
C11_WalletOnce ==
  /\ walletCalls <= 1
  /\ PastWallet => walletCalls = 1 /\ wallet_address = "0xwallet"
  /\ walletCalls = 1 /\ wallet_address = None =>
       /\ mpc = "exited"
       /\ exitCode = ExitFailure
       /\ token_requests = <<>> /\ ftask = <<>> /\ fres = <<>>
       /\ btask = <<>> /\ results = <<>> /\ report = <<>>

\* the derivation call failed and the run is over
C11_Witness ==
  /\ walletCalls = 1
  /\ wallet_address = None
  /\ mpc = "exited"

\* the check of the chain with this name
CheckOf(chain_name) ==
  CHOOSE c \in 1..Len(honey_config.chains) : honey_config.chains[c].name = chain_name

\* the native balance the wallet has on a chain
NativeAmount(chain_name) == IF chain_name = "Base" THEN 5 ELSE 0

\* C12: in the balance report a chain whose native balance query failed
\* carries the absent balance "Failed", and a chain whose query was answered
\* carries its balance, 0 included: a failed query is never reported as a
\* zero balance and a zero balance never as failed.
C12_FailedNotZero ==
  \A i \in 1..Len(report) :
    LET check == btask[CheckOf(report[i].name)]
    IN  /\ ~check.answered => report[i].eth_str = [text |-> "Failed", amount |-> 0]
        /\ check.answered =>
             report[i].eth_str = [text |-> "ETH", amount |-> NativeAmount(report[i].name)]
        /\ report[i].eth_str.text = "Failed" => ~check.answered

\* a report with a failed chain next to a chain whose balance is zero
C12_Witness ==
  \E i, j \in 1..Len(report) :
    /\ report[i].eth_str = [text |-> "Failed", amount |-> 0]
    /\ report[j].eth_str = [text |-> "ETH", amount |-> 0]
    /\ btask[CheckOf(report[j].name)].answered

\* digits is the numeral of n, leading zeros allowed
Denotes(digits, n) ==
  \E z \in 0..(Len(digits) - 1) :
    /\ \A i \in 1..z : digits[i] = "0"
    /\ SubSeq(digits, z + 1, Len(digits)) = Decimal(n)

\* out[a..b] is a run of digits with only whitespace and at most a sign before
\* it, and behind it only whitespace up to the end of the output or up to a
\* bracket
IntegerAt(out, a, b) ==
  /\ \/ \A i \in 1..(a - 1) : IsSpace(out[i])
     \/ a > 1 /\ out[a - 1] \in {"+", "-"} /\ \A i \in 1..(a - 2) : IsSpace(out[i])
  /\ \A i \in a..b : out[i] \in DOMAIN DigitValue
  /\ \/ \A i \in (b + 1)..Len(out) : IsSpace(out[i])
     \/ \E k \in (b + 1)..Len(out) :
          out[k] = "[" /\ \A i \in (b + 1)..(k - 1) : IsSpace(out[i])

\* C13: check_token_balance always returns an integer: for an output that is
\* an integer followed by a bracketed annotation, the integer before the
\* bracket; for a bare integer, that integer; and 0 for any other output, for
\* a non-zero exit status and for a call that raises.
C13_TokenParse ==
  call.returned /\ call.fn = "check_token_balance" =>
    LET out == call.res.stdout
        Well == {ab \in (1..Len(out)) \X (1..Len(out)) :
                   ab[1] <= ab[2] /\ IntegerAt(out, ab[1], ab[2])}
        v == call.value.value
    IN  /\ call.value.some
        /\ IF ~call.res.raised /\ call.res.returncode = 0 /\ Well # {}
           THEN \E ab \in Well :
                  LET minus == ab[1] > 1 /\ out[ab[1] - 1] = "-"
                  IN  /\ Denotes(SubSeq(out, ab[1], ab[2]), IF v < 0 THEN 0 - v ELSE v)
                      /\ v < 0 => minus
                      /\ v > 0 => ~minus
           ELSE v = 0
        /\ call.res = TokenTen => call.value.value = 10

\* the annotated output of a balance of 10 has been parsed
C13_Witness ==
  /\ call.returned
  /\ call.fn = "check_token_balance"
  /\ call.res.stdout = <<"1", "0", " ", "[", "1", "e", "1", "]", "\n">>
  /\ call.value = [some |-> TRUE, value |-> 10]

RECURSIVE PositiveTokens(_, _)
\* the configured tokens whose queried balance is positive, in configured order
PositiveTokens(balance, queried) ==
  IF balance = <<>> \/ queried = <<>> THEN <<>>
  ELSE (IF Head(queried) > 0
        THEN << [amount |-> Head(queried), token |-> Head(balance).token] >>
        ELSE <<>>) \o PositiveTokens(Tail(balance), Tail(queried))

\* C14: the token list of a chain's report entry holds exactly the configured
\* tokens whose queried balance is strictly positive, in configured order;
\* a token whose balance is zero or whose query failed is left out.
C14_PositiveTokens ==
  \A i \in 1..Len(report) :
    LET c == CheckOf(report[i].name)
    IN  /\ Len(btask[c].queried) = Len(honey_config.chains[c].balance)
        /\ report[i].token_str =
             PositiveTokens(honey_config.chains[c].balance, btask[c].queried)
        /\ \A k \in 1..Len(report[i].token_str) : report[i].token_str[k].amount > 0

\* five configured tokens, the second and the fourth positive, the others not
C14_Witness ==
  /\ Len(report) = 1
  /\ btask[1].queried = << 0, 10, 0, 10, 0 >>
  /\ report[1].token_str = << [amount |-> 10, token |-> "USDC"],
                              [amount |-> 10, token |-> "DAI"] >>

\* the named entries of a document, in their order
NamedEntries(data) == SelectSeq(data, LAMBDA e : e.name # "")

\* C15: for a chain set of size N loaded with starting port P, the i-th chain
\* (0-indexed, in configured order) has port P + i, and the ports are
\* pairwise distinct.
C15_Ports ==
  honey_config # NoConfig =>
    LET chains == honey_config.chains
        P == IF run.yaml.starting_port = NoPort THEN DefaultStartingPort
             ELSE run.yaml.starting_port
    IN  /\ Names(chains) = Names(NamedEntries(run.yaml.chains))
        /\ \A i \in 1..Len(chains) : chains[i].port = P + (i - 1)
        /\ \A i, j \in 1..Len(chains) : i # j => chains[i].port # chains[j].port

\* the document with starting port 9545 and an unnamed entry is loaded
C15_Witness ==
  /\ run.yaml = yamlThree
  /\ Len(honey_config.chains) = 3
  /\ [i \in 1..3 |-> honey_config.chains[i].port] = << 9545, 9546, 9547 >>
  /\ mpc = "launch"

\* the ways process_token_request ends for a configured chain: the transfer
\* went through, or it failed for good
TaskOutcomes == {"success", "exhausted", "rejected", "error"}

\* C16 as claimed: in the end-to-end scenario either both transfers succeeded
\* or exactly one failed for good and the other succeeded.
C16_BothOrOneFailure ==
  fres # <<>> => Cardinality({t \in DOMAIN fres : fres[t] = "success"}) >= 1

\* C16: in the end-to-end scenario (two chains on the ports P and P + 1, one
\* request each for the same holder, run concurrently) each of the two
\* transfers ends as succeeded or as failed for good, both failing included;
\* in every case the funding phase completes and the balance report has an
\* entry for both chains, unless the run is interrupted.
C16_ScenarioCompletes ==
  /\ [](/\ Len(honey_config.chains) = 2
        /\ honey_config.chains[2].port = honey_config.chains[1].port + 1)
  /\ [](fres # <<>> => DOMAIN fres = 1..2 /\ \A t \in 1..2 : fres[t] \in TaskOutcomes)
  /\ [](mpc \in {"wait", "shutdown_wait"} =>
          Len(report) = 2 /\ Range(Names(report)) = {"Base", "OP"})
  /\ (mpc = "fund_wait") ~> (fres # <<>> \/ interrupted)
  /\ (fres # <<>>) ~> (Len(report) = 2 \/ interrupted)

\* both transfers failed for good and the report has both chains
C16_Witness ==
  /\ fres # <<>>
  /\ \A t \in DOMAIN fres : fres[t] \in {"exhausted", "rejected", "error"}
  /\ Range(Names(report)) = {"Base", "OP"}

\* C17 as claimed: a task whose external call hangs still ends, and the
\* funding phase completes.
C17_HungCallEnds ==
  (\E t \in TaskIds : ftask[t].pc = "hung") ~> (mpc = "balance")

\* C18: funding failures never abort the run: whatever the outcomes of the
\* tasks, add_tokens_by_address is left only by returning (or by an
\* interrupt), and the balance aggregator is then invoked with one check per
\* configured chain.
C18_FailuresDoNotAbort ==
  /\ [][mpc = "fund_wait" =>
          (\/ mpc' \in {"fund_wait", "balance"}
           \/ mpc' = "fund_abort" /\ interrupted')]_vars
  /\ [][mpc = "balance" /\ mpc' # "balance" =>
          (\/ mpc' = "bal_wait" /\ DOMAIN btask' = 1..Len(honey_config.chains)
           \/ interrupted')]_vars
  /\ (mpc = "fund_wait") ~> (mpc = "bal_wait" \/ interrupted)

\* both tasks failed, each in its own way, and the balance checks are submitted
C18_Witness ==
  /\ fres = << "error", "rejected" >>
  /\ mpc = "bal_wait"
  /\ DOMAIN btask = 1..2

\* C19: balance check errors are not fatal and stay with their chain: for
\* any pattern of failing queries check_token_balances_all_chains is left
\* only by returning (or by an interrupt), and its report has exactly one
\* entry per configured chain, "Failed" for the chains whose native query
\* failed and a balance for the others.
C19_BalanceErrorsIsolated ==
  /\ [][mpc = "bal_wait" =>
          (\/ mpc' \in {"bal_wait", "wait"}
           \/ mpc' = "bal_abort" /\ interrupted')]_vars
  /\ [](mpc \in {"wait", "shutdown_wait"} =>
          /\ Len(report) = Len(honey_config.chains)
          /\ \A c \in 1..Len(honey_config.chains) :
               \E i \in 1..Len(report) :
                 /\ report[i].name = honey_config.chains[c].name
                 /\ \A j \in 1..Len(report) : report[j].name = report[i].name => j = i
                 /\ (report[i].eth_str.text = "Failed") = ~btask[c].answered
                 /\ (report[i].eth_str.text = "ETH") = btask[c].answered)

\* five chains, the native query of one failed: five entries, one "Failed"
C19_Witness ==
  /\ mpc = "wait"
  /\ Len(report) = 5
  /\ Cardinality({i \in 1..Len(report) : report[i].eth_str.text = "Failed"}) = 1
  /\ Cardinality({i \in 1..Len(report) : report[i].eth_str.text = "ETH"}) = 4

\* C20: the funding orchestrator is a join point: add_tokens_by_address is
\* left, by returning or by an interrupt, only after every submitted task has
\* ended; afterwards no task is running or queued and every task has a result.
C20_FundingJoins ==
  /\ [][(PoolOpen /\ mpc' \notin {"fund_wait", "fund_abort"}) =>
          (\A t \in TaskIds : ftask[t].pc = "done")]_vars
  /\ [](mpc \notin {"fund_wait", "fund_abort"} =>
          \A t \in TaskIds : ftask[t].pc = "done")
  /\ [](\A t \in DOMAIN fres : fres[t] # "none")

\* five tasks on four workers: the call returned with a result for each
C20_Witness ==
  /\ mpc = "balance"
  /\ Len(fres) = 5
  /\ \E t \in DOMAIN fres : fres[t] # "success"

\* C21: the run exits with code 0 on normal shutdown, that is when the final
\* wait on the simulator child returns, either because the child exited after
\* the balance phase or after an interrupt of the final wait was handled by
\* terminate-and-wait, and with no other outcome; it exits with a non-zero
\* code when the simulator did not become ready and when the wallet secret is
\* missing.
C21_ExitCodes ==
  /\ [](mpc = "exited" => exitCode \in {0, ExitFailure, ExitInterrupted})
  /\ [](mpc # "exited" => exitCode = NoCode)
  /\ [](mpc = "shutdown_wait" => interrupted /\ termSent)
  /\ [][(mpc # "exited" /\ mpc' = "exited") =>
          /\ mpc \in {"wait", "shutdown_wait"} => exitCode' = 0 /\ child = "exited"
          /\ exitCode' = 0 => mpc \in {"wait", "shutdown_wait"} /\ Len(report) > 0]_vars
  /\ [](mpc = "exited" /\ ready = "failed" => exitCode = ExitFailure)
  /\ [](mpc = "exited" /\ run.yaml.wallet_pk = None => exitCode # 0)

\* the final wait was interrupted, the child terminated and awaited: exit 0
C21_Witness ==
  /\ mpc = "exited"
  /\ exitCode = 0
  /\ interrupted
  /\ termSent
  /\ child = "exited"

\* C22: a missing wallet secret is detected when the configuration is loaded:
\* the run ends there, with a failure status, before the simulator child is
\* launched and before any probe, derivation, impersonation, transfer or
\* balance query is made.
C22_MissingSecret ==
  run.yaml.wallet_pk = None =>
    /\ mpc \in {"load", "exited"}
    /\ mpc = "exited" /\ ~interrupted => exitCode = ExitFailure
    /\ honey_config = NoConfig
    /\ child = "none" /\ ~termSent
    /\ ready = "unknown" /\ elapsed = 0
    /\ walletCalls = 0 /\ wallet_address = None
    /\ token_requests = <<>> /\ ftask = <<>> /\ fres = <<>>
    /\ btask = <<>> /\ results = <<>> /\ report = <<>>

\* the document without a wallet private key was rejected at load time
C22_Witness ==
  /\ run.yaml = yamlNoKey
  /\ mpc = "exited"
  /\ exitCode = ExitFailure
  /\ child = "none"

\* the order in which the main thread goes through its phases
PhaseOrder ==
  { <<"load", "launch">>, <<"launch", "poll">>, <<"poll", "wallet">>,
    <<"wallet", "build">>, <<"build", "fund">>, <<"build", "balance">>,
    <<"fund", "fund_wait">>, <<"fund_wait", "balance">>, <<"balance", "bal_wait">>,
    <<"bal_wait", "wait">> }

\* C23: phase ordering of a run: the simulator is launched and Ready before
\* the wallet is resolved; the wallet is resolved before any funding task is
\* submitted; every funding task, one per request, has ended before any
\* balance check is submitted; the final wait begins only after the report of
\* all chains has been emitted; and no call of a later phase is made while an
\* earlier phase is in progress.
C23_PhaseOrder ==
  /\ [][mpc' # mpc => \/ <<mpc, mpc'>> \in PhaseOrder
                      \/ mpc' = "exited"
                      \/ interrupted' /\ ~interrupted]_vars
  /\ [](mpc \in {"load", "launch", "poll"} =>
          walletCalls = 0 /\ token_requests = <<>> /\ ftask = <<>> /\ btask = <<>>)
  /\ [](walletCalls > 0 => child # "none" /\ ready = "ready")
  /\ [](ftask # <<>> \/ fres # <<>> => walletCalls = 1 /\ wallet_address = "0xwallet")
  /\ [](RunningTasks # {} => btask = <<>> /\ report = <<>>)
  /\ [](mpc \in {"balance", "bal_wait", "bal_abort", "wait", "shutdown_wait"} \/ btask # <<>> =>
          /\ ftask = <<>>
          /\ Len(fres) = Len(token_requests)
          /\ \A t \in DOMAIN fres : fres[t] # "none")
  /\ [](RunningChecks # {} => mpc \in {"bal_wait", "bal_abort"} /\ report = <<>>)
  /\ [](mpc \in {"wait", "shutdown_wait"} =>
          /\ \A c \in CheckIds : btask[c].pc = "done" /\ btask[c].collected
          /\ Len(report) = Len(honey_config.chains)
          /\ Len(report) > 0)

\* a run that went through every phase and is in its final wait
C23_Witness ==
  /\ mpc = "wait"
  /\ ~interrupted
  /\ walletCalls = 1
  /\ Len(fres) = 2
  /\ Len(report) = 2

\* the probe came back with exit code 0 and an output that is not blank
ProbeSucceeded(result) ==
  /\ ~result.timedout
  /\ result.returncode = 0
  /\ \E i \in 1..Len(result.stdout) : ~IsSpace(result.stdout[i])

\* C24: readiness polling: check_supersim_ready reports Ready if and only if
\* a probe against the first chain's endpoint (the starting port), started
\* before the deadline, returned exit code 0 with a non-empty (not blank)
\* output; a probe that fails, times out or returns nothing is followed by
\* the fixed wait of 2 and, while the deadline has not elapsed, another probe
\* can start; no probe starts once the elapsed time has reached the deadline,
\* and the result is then Failed.
C24_ReadinessPolling ==
  /\ [](ready = "ready" <=> ProbeSucceeded(probed.result))
  /\ [](probed # NoProbe =>
          /\ probed.port = honey_config.starting_port
          /\ honey_config.chains # <<>> => probed.port = honey_config.chains[1].port)
  /\ [][(probed' # probed \/ elapsed' # elapsed \/ (ready' = "ready" /\ ready # "ready")) =>
          mpc = "poll" /\ elapsed < timeout_seconds]_vars
  /\ [][(mpc = "poll" /\ elapsed' > elapsed) =>
          /\ ~ProbeSucceeded(probed'.result)
          /\ mpc' = "poll" /\ ready' = "unknown"
          /\ (elapsed' - elapsed) - PollInterval \in 0..ProbeTimeout
          /\ probed'.result.timedout => elapsed' - elapsed = ProbeTimeout + PollInterval]_vars
  /\ [][(ready' = "failed" /\ ready # "failed") =>
          mpc = "poll" /\ elapsed >= timeout_seconds]_vars
  /\ [](mpc = "poll" /\ elapsed < timeout_seconds =>
          ENABLED (\E res \in ProbeResults : \E d \in {0, ProbeTimeout} : Probe(res, d)))
  /\ [](mpc = "poll" /\ elapsed >= timeout_seconds =>
          /\ ~ENABLED (\E res \in ProbeResults : \E d \in {0, MaxProbeTime, ProbeTimeout} :
                         Probe(res, d))
          /\ ENABLED ReadyTimeout)

\* the probe against the starting port 9545 was answered: Ready
C24_Witness ==
  /\ ready = "ready"
  /\ probed = [port |-> 9545, result |-> ProbeAnswer]
  /\ mpc = "wallet"

\* C25: within a funding task every transfer submission is preceded, in the
\* same attempt, by an impersonation call for the task's holder that
\* succeeded: a retry restarts from the impersonation step, and no transfer is
\* submitted in an attempt whose impersonation failed or was skipped.
C25_TransferAfterImpersonation ==
  /\ [](\A t \in TaskIds :
          /\ ftask[t].xfer <= ftask[t].imp
          /\ ftask[t].pc = "imp" => ~ftask[t].impersonated /\ ftask[t].imp = ftask[t].attempt
          /\ ftask[t].pc = "xfer" =>
               /\ ftask[t].impersonated
               /\ ftask[t].imp = ftask[t].attempt + 1
               /\ ftask[t].imp_args.holder = token_requests[t].holder)
  /\ [][\A t \in TaskIds :
          (t \in DOMAIN ftask' /\ ftask'[t].xfer # ftask[t].xfer) =>
             /\ ftask[t].pc = "xfer" /\ ftask[t].impersonated
             /\ ftask'[t].xfer = ftask[t].xfer + 1
             /\ ftask'[t].xfer_args.from = ftask[t].imp_args.holder
             /\ ftask'[t].xfer_args.port = ftask[t].imp_args.port]_vars
  /\ [][\A t \in TaskIds :
          (t \in DOMAIN ftask' /\ ftask[t].pc = "sleep" /\ ftask'[t].pc # "sleep") =>
             ftask'[t].pc \in {"imp", "done"} /\ ~ftask'[t].impersonated]_vars

\* the transfer of a second attempt, after the second impersonation succeeded
C25_Witness ==
  \E t \in TaskIds :
    /\ ftask[t].attempt = 1
    /\ ftask[t].pc = "xfer"
    /\ ftask[t].imp = 2
    /\ ftask[t].xfer = 1
    /\ ftask[t].impersonated

\* C26: a funding task that names a configured chain never raises to the
\* pool: whatever its impersonation and transfer calls do (succeed, fail
\* underpriced until the retries are used up, be rejected, fail to
\* impersonate, or raise themselves), process_token_request ends by returning.
C26_NeverRaises ==
  \A t \in TaskIds :
    token_requests[t].chain \in Range(Names(honey_config.chains)) =>
      /\ ftask[t].result # "raised"
      /\ t \notin poolLog
      /\ ftask[t].pc = "done" => ftask[t].result \in TaskOutcomes

\* the transfer call itself raised in all four attempts and the task returned
C26_Witness ==
  \E t \in TaskIds :
    /\ token_requests[t].chain = "Base"
    /\ ftask[t].pc = "done"
    /\ ftask[t].err = "xfer_raised"
    /\ ftask[t].attempt = max_retries
    /\ ftask[t].result = "error"

\* a step of task t: one of its external calls returns or its sleep ends
TaskStep(t) ==
  \/ \E res \in ImpResults : ImpCall(t, res)
  \/ \E res \in XferResults : XferCall(t, res)
  \/ Sleep(t)

\* C27: given that every external call returns, the funding phase terminates
\* with more tasks than workers (5 tasks, 4 workers): every queued task is
\* eventually started and every started task eventually ends, a running task
\* can always take its next step whatever the other tasks do, and
\* add_tokens_by_address eventually returns with a result for every task.
C27_FundingTerminates ==
  /\ \A t \in 1..Len(yamlManyTokens.chains[1].balance) :
       /\ (t \in TaskIds /\ ftask[t].pc = "queued") ~> (t \in TaskIds /\ ftask[t].pc = "imp")
       /\ (t \in TaskIds /\ ftask[t].pc = "imp") ~> (Len(fres) >= t /\ fres[t] # "none")
  /\ [](\A t \in TaskIds : ftask[t].pc \in {"imp", "xfer", "sleep"} => ENABLED TaskStep(t))
  /\ (mpc = "fund_wait") ~> (mpc = "balance" /\ Len(fres) = Len(token_requests))

\* the fifth task runs on the worker that a task which has ended gave back
C27_Witness ==
  /\ Len(token_requests) = 5
  /\ ftask # <<>>
  /\ ftask[5].pc = "xfer"
  /\ Cardinality(RunningTasks) = 4
  /\ \E t \in 1..4 : ftask[t].pc = "done"

\* C28: the simulator child is a singleton of the supervisor: it is launched
\* at most once per run, by run_supersim; it is terminated only by
\* run_supersim or by the shutdown code of the final wait; and no step of a
\* funding task or of a balance check changes it.
C28_SimulatorSingleton ==
  /\ [][(mpc = "launch" /\ mpc' = "poll") => child = "none" /\ child' = "running"]_vars
  /\ [][child' # child =>
          \/ mpc = "launch" /\ child = "none" /\ child' = "running"
          \/ /\ child = "running" /\ child' = "exited"
             /\ UNCHANGED << mpc, termSent, ftask, btask >>]_vars
  /\ [][termSent' # termSent =>
          /\ mpc \in {"poll", "wait"}
          /\ child # "none"
          /\ UNCHANGED << ftask, btask, child >>]_vars
  /\ [][(ftask' # ftask \/ btask' # btask) => UNCHANGED << child, termSent >>]_vars
  /\ [](mpc \in {"load", "launch"} => child = "none")

\* tasks and checks have run, the final wait was interrupted and the one child
\* has been sent the termination signal
C28_Witness ==
  /\ mpc = "shutdown_wait"
  /\ termSent
  /\ child = "running"
  /\ Len(fres) = 2
  /\ Len(report) = 2

\* the backoff delay of a task that has gone through a number of backoffs
DelayAfter == RetryDelays \o << 675 >>

\* C29: retry state is task-local and shared state is read-only: a step that
\* changes a funding task changes no other task and leaves the wallet address,
\* the chain configuration and the requests unchanged; the backoff delay of a
\* task depends on its own attempt counter only.
C29_TaskLocalRetry ==
  /\ [][\A t \in TaskIds :
          (t \in DOMAIN ftask' /\ ftask'[t] # ftask[t]) =>
             /\ \A u \in TaskIds \ {t} : ftask'[u] = ftask[u]
             /\ UNCHANGED << honey_config, wallet_address, token_requests >>]_vars
  /\ [](\A t \in TaskIds :
          /\ ftask[t].attempt <= max_retries
          /\ ftask[t].retry_delay = DelayAfter[ftask[t].attempt + 1]
          /\ Len(ftask[t].sleeps) = ftask[t].attempt)

\* one task is in its last attempt while the other is still in its first
C29_Witness ==
  /\ DOMAIN ftask = 1..2
  /\ ftask[1].attempt = max_retries
  /\ ftask[1].pc = "imp"
  /\ ftask[2].attempt = 0
  /\ ftask[2].pc = "imp"
  /\ ftask[2].retry_delay = InitialRetryDelay

\* the configured balance entries: chain index and position in the chain
EntryIds ==
  {p \in (1..Len(honey_config.chains)) \X (1..5) :
     p[2] <= Len(honey_config.chains[p[1]].balance)}

\* the number of entries up to and including p, in configuration order
Rank(p) ==
  Cardinality({q \in EntryIds : q[1] < p[1] \/ (q[1] = p[1] /\ q[2] <= p[2])})

\* C30: funding tasks are derived 1:1 from the configuration: for chain names
\* that are unique there is exactly one request and one task per configured
\* balance entry, and every impersonation and transfer call of the task goes
\* to the port of the entry's chain with the entry's token address, amount
\* and holder, and with the resolved wallet address as recipient.
C30_TasksFromConfig ==
  (\A i, j \in 1..Len(honey_config.chains) :
     i # j => honey_config.chains[i].name # honey_config.chains[j].name) =>
    /\ token_requests # <<>> \/ mpc \in {"fund", "fund_wait", "fund_abort", "balance",
                                         "bal_wait", "bal_abort", "wait", "shutdown_wait"} =>
         /\ Len(token_requests) = Cardinality(EntryIds)
         /\ \A p \in EntryIds :
              LET entry == honey_config.chains[p[1]].balance[p[2]]
                  request == token_requests[Rank(p)]
              IN  /\ request.token = entry.address
                  /\ request.chain = honey_config.chains[p[1]].name
                  /\ request.holder = entry.holder
                  /\ ParseInt(request.amount) = [ok |-> TRUE, value |-> entry.amount]
    /\ ftask # <<>> => DOMAIN ftask = 1..Cardinality(EntryIds)
    /\ fres # <<>> => DOMAIN fres = 1..Cardinality(EntryIds)
    /\ \A p \in EntryIds :
         Rank(p) \in TaskIds =>
           LET entry == honey_config.chains[p[1]].balance[p[2]]
               port == honey_config.chains[p[1]].port
               task == ftask[Rank(p)]
           IN  /\ task.imp_args =
                    IF task.imp = 0 THEN NoImpArgs
                    ELSE [holder |-> entry.holder, port |-> port]
               /\ task.xfer = 0 => task.xfer_args = NoXferArgs
               /\ task.xfer > 0 =>
                    /\ task.xfer_args.token = entry.address
                    /\ task.xfer_args.to = wallet_address
                    /\ wallet_address = "0xwallet"
                    /\ task.xfer_args.from = entry.holder
                    /\ task.xfer_args.port = port
                    /\ ParseInt(task.xfer_args.amount) = [ok |-> TRUE, value |-> entry.amount]

\* the transfer of the entry of the second chain went to port 4445
C30_Witness ==
  /\ run.yaml = yamlTwo
  /\ DOMAIN ftask = 1..2
  /\ ftask[2].xfer > 0
  /\ ftask[2].xfer_args = [token |-> "0xvelo", to |-> "0xwallet", amount |-> <<"1", "0">>,
                           from |-> "0xholder", port |-> 4445]

\* C31: the funding and balance phases work for zero work units:
\* add_tokens_by_address called with an empty request list and
\* check_token_balances_all_chains run over an empty chain set go on without
\* raising (the program is not ended by an exception).
C31_ZeroUnits ==
  [][((mpc = "fund" /\ token_requests = <<>>) \/
      (mpc = "balance" /\ honey_config.chains = <<>>)) =>
        (mpc' # "exited" /\ exitCode' = NoCode)]_vars

\* C32: no double funding: a funding task has at most one transfer reported
\* successful, that transfer is its last call, and after it the task makes no
\* further impersonation call, transfer call or backoff sleep.
C32_NoDoubleFunding ==
  /\ [](\A t \in TaskIds :
          ftask[t].result = "success" =>
            /\ ftask[t].pc = "done"
            /\ ftask[t].xfer <= ftask[t].attempt + 1
            /\ ftask[t].imp = ftask[t].attempt + 1
            /\ Len(ftask[t].sleeps) = ftask[t].attempt)
  /\ [][\A t \in TaskIds :
          (t \in DOMAIN ftask' /\ ftask[t].result = "success") => ftask'[t] = ftask[t]]_vars
  /\ [][\A t \in TaskIds :
          (t \in DOMAIN ftask' /\ ftask'[t].result = "success" /\ ftask[t].result # "success") =>
             /\ ftask[t].result = "none"
             /\ ftask[t].pc = "xfer"
             /\ ftask'[t].xfer = ftask[t].xfer + 1]_vars

\* a transfer succeeded in a task's third attempt while the other task is in
\* a backoff sleep
C32_Witness ==
  \E t, u \in TaskIds :
    /\ t # u
    /\ ftask[t].result = "success"
    /\ ftask[t].attempt = 2
    /\ ftask[t].xfer = 3
    /\ ftask[u].pc = "sleep"

\* the backoff sleeps of a task, the one it is in included
SleepCount(task) == Len(task.sleeps) + (IF task.pc = "sleep" THEN 1 ELSE 0)

\* C33: the call budget of a funding task under any mix of failures
\* (contention errors, impersonation failures and exceptions in any order):
\* at most max_retries + 1 = 4 impersonation calls, at most 4 transfer
\* submissions, at most max_retries = 3 backoff sleeps, and no sleep after the
\* final attempt.
C33_CallBudget ==
  \A t \in TaskIds :
    /\ ftask[t].imp <= max_retries + 1
    /\ ftask[t].xfer <= max_retries + 1
    /\ SleepCount(ftask[t]) <= max_retries
    /\ ftask[t].attempt <= max_retries
    /\ ftask[t].pc = "sleep" => ftask[t].attempt < max_retries
    /\ ftask[t].pc = "done" => Len(ftask[t].sleeps) = ftask[t].attempt

\* four attempts that failed in different ways: an underpriced transfer, a
\* transfer call that raised, and impersonation failures, the last one final
C33_Witness ==
  \E t \in TaskIds :
    /\ ftask[t].pc = "done"
    /\ ftask[t].imp = max_retries + 1
    /\ ftask[t].xfer = 2
    /\ ftask[t].under = 1
    /\ ftask[t].err = "imp_failed"
    /\ Len(ftask[t].sleeps) = max_retries

====
